---- MODULE Spec2Model ----
(***************************************************************************)
(* HMFI business-loan scorecard (src/app.py).                              *)
(*                                                                         *)
(* The scoring engine calculate_scorecard(inputs, lookups, sector_stress)  *)
(* is a pure function of a typed application record and a policy.  Python  *)
(* floats are modelled as exact rationals <<n, d>> in lowest terms with    *)
(* d > 0; Python's None (an absent optional number) is the pair <<0, 0>>.  *)
(* Categorical fields keep the strings of the source, so the string        *)
(* "None" (a collateral type) and the absent number None are different     *)
(* things here exactly as they are in the source.                          *)
(***************************************************************************)
EXTENDS Integers, Sequences, FiniteSets, TLC

VARIABLES
    inputs,         \* the application record handed to calculate_scorecard
    lookups,        \* the policy thresholds and weight caps (lookup_values)
    sector_stress,  \* the policy's sector -> stress factor mapping
    result,         \* outcome of the latest calculate_scorecard call, if any
    probe,          \* a (total_score, flags, collateral_type) triple put to the decision rules
    verdict,        \* the recommendation and risk band the decision rules give for probe
    session_state,  \* st.session_state: wizard step, widget values, policy and last result
    heap,           \* the dictionaries shared by reference, by object identifier
    event,          \* the handler that ran last
    remembered      \* an earlier calculate_scorecard call (arguments and outcome), if any

vars ==
    <<inputs, lookups, sector_stress, result, probe, verdict,
      session_state, heap, event, remembered>>

engine_vars == <<inputs, lookups, sector_stress, result>>

session_vars == <<session_state, heap, event, remembered>>

(***************************************************************************)
(* Bounds of the model (not program constants).                            *)
(***************************************************************************)
\* how many fields of (inputs, lookups, sector_stress) differ from the shipped defaults
MaxEdits == 2
\* largest |term_months| for which the amortizing payment is evaluated
MaxPeriods == 12
\* probed non-integer total scores are the multiples of 1/ScoreDen
ScoreDen == 2
\* how many widget values of the wizard differ from their defaults at a time
MaxDirty == 2

(***************************************************************************)
(* Exact rational arithmetic standing for Python float arithmetic.         *)
(***************************************************************************)
Abs(a) == IF a < 0 THEN -a ELSE a

RECURSIVE GCD(_, _)
GCD(a, b) == IF b = 0 THEN a ELSE GCD(b, a % b)

\* the rational n/d (d # 0) in lowest terms with a positive denominator
Rat(n, d) ==
    LET g == GCD(Abs(n), Abs(d))
        s == IF d < 0 THEN -1 ELSE 1
    IN  <<s * (n \div g), Abs(d) \div g>>

Num(n) == <<n, 1>>
\* Python's None for an optional number
None == <<0, 0>>
IsNone(x) == x = None
IsZero(x) == x[2] # 0 /\ x[1] = 0
IsInteger(x) == x[2] = 1

Add(x, y) == Rat(x[1] * y[2] + y[1] * x[2], x[2] * y[2])
Neg(x) == <<-x[1], x[2]>>
Sub(x, y) == Add(x, Neg(y))
Mul(x, y) ==
    LET g1 == GCD(Abs(x[1]), y[2])
        g2 == GCD(Abs(y[1]), x[2])
    IN  Rat((x[1] \div g1) * (y[1] \div g2), (x[2] \div g2) * (y[2] \div g1))
\* x / y for y # 0
Quot(x, y) == Mul(x, Rat(y[2], y[1]))
Leq(x, y) == x[1] * y[2] <= y[1] * x[2]
Lt(x, y) == x[1] * y[2] < y[1] * x[2]
Geq(x, y) == Leq(y, x)
Gt(x, y) == Lt(y, x)
RatAbs(x) == <<Abs(x[1]), x[2]>>
RatMin(x, y) == IF Leq(x, y) THEN x ELSE y
RatMax(x, y) == IF Leq(x, y) THEN y ELSE x

\* b^k for a natural k
RECURSIVE PowNat(_, _)
PowNat(b, k) ==
    IF k = 0 THEN Num(1)
    ELSE LET rest == PowNat(b, k - 1)
         IN  IF IsZero(rest) THEN Num(0) ELSE Mul(b, rest)

(***************************************************************************)
(* Module-level tables of the source.                                      *)
(***************************************************************************)
DEFAULT_LOOKUP_VALUES ==
    [ STRESS_FACTOR                    |-> Rat(85, 100),
      DSCR_TARGET                      |-> Rat(13, 10),
      CASHFLOW_DEFICIT_REPAY_SHARE_MAX |-> Rat(5, 10),
      LTV_MAX_MOVABLE                  |-> Rat(125, 100),
      LTV_MAX_IMMOVABLE                |-> Rat(11, 10),
      EQUITY_MIN_RATIO                 |-> Rat(1, 10),
      DATA_VARIANCE_MAX                |-> Rat(2, 10),
      BUSINESS_AGE_MIN                 |-> Num(6),
      AGE_MAX                          |-> Num(99),
      BRANCH_APPROVAL_LIMIT_ETB        |-> Num(50000),
      BUSINESS_LOAN_HARD_MAX_ETB       |-> Num(3000000),
      W_CHARACTER                      |-> Num(30),
      W_CAPACITY                       |-> Num(39),
      W_CAPITAL                        |-> Num(10),
      W_COLLATERAL                     |-> Num(10),
      W_CONDITION                      |-> Num(10) ]

DEFAULT_SECTOR_STRESS ==
    [ Trade         |-> Rat(85, 100),
      Service       |-> Rat(8, 10),
      Manufacturing |-> Rat(7, 10),
      Agriculture   |-> Rat(6, 10),
      Other         |-> Rat(55, 100) ]

\* CUSTOMER_INPUT_DEFAULTS as build_inputs_from_state hands them to the engine:
\* the numeric text fields parsed to numbers, loan_series "2" to 2.0, the
\* site-visit selection to an int; the fields the engine never reads are left out.
CUSTOMER_INPUT_DEFAULTS ==
    [ sex                          |-> "M",
      age_years                    |-> Num(35),
      marital_status               |-> "Married",
      repeat_borrower              |-> "No",
      loan_series                  |-> Num(2),
      prior_default                |-> "No",
      requested_loan_amount        |-> Num(50000),
      monthly_installment_override |-> Num(4584),
      term_months                  |-> Num(12),
      annual_interest_rate         |-> Num(18),
      site_visit_assessment        |-> 3,
      sector                       |-> "Trade",
      training_certification       |-> "Yes",
      is_business_seasonal         |-> "No",
      years_in_business_months     |-> Num(24),
      character_references         |-> "Good",
      stability_months             |-> Num(24),
      stated_revenue               |-> Num(30000),
      verified_revenue             |-> Num(28000),
      cogs_inventory               |-> Num(12000),
      other_monthly_income         |-> Num(2000),
      rent                         |-> Num(3000),
      household_expenses           |-> Num(5000),
      utilities                    |-> Num(800),
      owner_withdrawals            |-> Num(1500),
      wages                        |-> Num(2500),
      transport                    |-> Num(700),
      other_operating_costs        |-> Num(1000),
      total_capital                |-> Num(20000),
      additional_savings_equity    |-> Num(10000),
      collateral_type              |-> "Movable",
      collateral_insured           |-> "Yes",
      market_value                 |-> Num(150000) ]

\* RISK_BANDS, in the order the source scans it
RISK_BANDS ==
    << <<Num(85), "Very Low Risk">>,
       <<Num(70), "Low Risk">>,
       <<Num(55), "Moderate Risk">>,
       <<Num(40), "High Risk">>,
       <<Num(1),  "Very High Risk">> >>

(***************************************************************************)
(* Helpers of the source.                                                  *)
(***************************************************************************)
\* the outcome of a helper that raised (ZeroDivisionError, ValueError)
Raised == <<1, 0>>
IsRaised(x) == x = Raised

\* math.pow(base, -periods) for an integer periods: raises ValueError for a zero
\* base and a positive periods (a negative power of zero)
PowNegated(base, periods) ==
    IF periods > 0
    THEN IF IsZero(base) THEN Raised
         ELSE LET power == PowNat(base, periods)
              IN  IF power = Num(1) THEN Num(1) ELSE Quot(Num(1), power)
    ELSE PowNat(base, -periods)

\* pmt giving 0 rather than None for a zero term at a nonzero rate
pmt_ZeroForZeroTerm(rate, periods, present_value) ==
    IF IsZero(rate)
    THEN IF IsZero(periods) THEN None ELSE Quot(present_value, periods)
    ELSE IF IsZero(periods) THEN Num(0)
    ELSE LET p == PowNegated(Add(Num(1), rate), periods[1])
         IN  IF IsRaised(p) THEN Raised
             ELSE LET denominator == Sub(Num(1), p)
                  IN  IF IsZero(denominator) THEN Raised
                      ELSE Quot(Mul(rate, present_value), denominator)

pmt(rate, periods, present_value) ==
    IF IsZero(rate)
    THEN IF IsZero(periods) THEN None ELSE Quot(present_value, periods)
    ELSE IF IsZero(periods) THEN None
    ELSE LET p == PowNegated(Add(Num(1), rate), periods[1])
         IN  IF IsRaised(p) THEN Raised
             ELSE LET denominator == Sub(Num(1), p)
                  IN  IF IsZero(denominator) THEN Raised
                      ELSE Quot(Mul(rate, present_value), denominator)

safe_divide(numerator, denominator) ==
    IF IsNone(numerator) \/ IsNone(denominator) \/ IsZero(denominator)
    THEN None
    ELSE Quot(numerator, denominator)

RECURSIVE ScanBands(_, _)
ScanBands(score, i) ==
    IF i > Len(RISK_BANDS) THEN "Very High Risk"
    ELSE IF Geq(score, RISK_BANDS[i][1]) THEN RISK_BANDS[i][2]
    ELSE ScanBands(score, i + 1)

\* risk_band comparing with > where the source compares with >=
risk_band_Strict(score) ==
    IF Gt(score, Num(85)) THEN "Very Low Risk"
    ELSE IF Gt(score, Num(70)) THEN "Low Risk"
    ELSE IF Gt(score, Num(55)) THEN "Moderate Risk"
    ELSE IF Gt(score, Num(40)) THEN "High Risk"
    ELSE "Very High Risk"

risk_band(score) == ScanBands(score, 1)

(***************************************************************************)
(* calculate_scorecard, local by local.                                    *)
(***************************************************************************)
Present(x) == ~IsNone(x)

\* sector_stress.get(sector) if sector else None
stress_factor(inp, stress) ==
    IF inp.sector # "" /\ inp.sector \in DOMAIN stress THEN stress[inp.sector] ELSE None

monthly_installment_used(inp) ==
    IF Present(inp.monthly_installment_override)
    THEN inp.monthly_installment_override
    ELSE IF /\ Present(inp.requested_loan_amount)
            /\ Present(inp.term_months)
            /\ Present(inp.annual_interest_rate)
         THEN LET monthly_rate == Quot(Quot(inp.annual_interest_rate, Num(100)), Num(12))
              IN  pmt(monthly_rate, inp.term_months, inp.requested_loan_amount)
         ELSE None

total_operating_expenses(inp) ==
    IF /\ Present(inp.rent) /\ Present(inp.utilities) /\ Present(inp.wages)
       /\ Present(inp.transport) /\ Present(inp.other_operating_costs)
    THEN Add(Add(Add(Add(inp.rent, inp.utilities), inp.wages), inp.transport),
             inp.other_operating_costs)
    ELSE None

business_surplus_unstressed(inp) ==
    LET opex == total_operating_expenses(inp)
    IN  IF Present(inp.verified_revenue) /\ Present(inp.cogs_inventory) /\ Present(opex)
        THEN Sub(Sub(inp.verified_revenue, inp.cogs_inventory), opex)
        ELSE None

business_surplus_stressed(inp, stress) ==
    LET unstressed == business_surplus_unstressed(inp)
        factor == stress_factor(inp, stress)
    IN  IF Present(unstressed) /\ Present(factor) THEN Mul(unstressed, factor) ELSE None

\* business surplus + other income - household expenses - owner withdrawals
total_monthly_surplus(inp, business_surplus) ==
    IF /\ Present(business_surplus) /\ Present(inp.other_monthly_income)
       /\ Present(inp.household_expenses) /\ Present(inp.owner_withdrawals)
    THEN Sub(Sub(Add(business_surplus, inp.other_monthly_income), inp.household_expenses),
             inp.owner_withdrawals)
    ELSE None

total_monthly_surplus_stressed(inp, stress) ==
    total_monthly_surplus(inp, business_surplus_stressed(inp, stress))

total_monthly_surplus_unstressed(inp) ==
    total_monthly_surplus(inp, business_surplus_unstressed(inp))

\* repayment_share testing the surplus with < 0: a zero surplus is divided by
repayment_share_Strict(installment, surplus_unstressed) ==
    IF Present(installment) /\ Present(surplus_unstressed)
    THEN IF Lt(surplus_unstressed, Num(0)) THEN Num(1)
         ELSE IF IsZero(surplus_unstressed) THEN Raised
         ELSE Quot(installment, surplus_unstressed)
    ELSE None

repayment_share(installment, surplus_unstressed) ==
    IF Present(installment) /\ Present(surplus_unstressed)
    THEN IF Leq(surplus_unstressed, Num(0)) THEN Num(1)
         ELSE Quot(installment, surplus_unstressed)
    ELSE None

income_variance(inp) ==
    IF /\ Present(inp.stated_revenue)
       /\ Present(inp.verified_revenue) /\ ~IsZero(inp.verified_revenue)
    THEN Quot(RatAbs(Sub(inp.stated_revenue, inp.verified_revenue)), inp.verified_revenue)
    ELSE None

equity_ratio(inp) ==
    IF /\ Present(inp.requested_loan_amount) /\ Present(inp.total_capital)
       /\ Present(inp.additional_savings_equity)
       /\ ~IsZero(inp.requested_loan_amount)
    THEN Quot(Add(inp.total_capital, inp.additional_savings_equity), inp.requested_loan_amount)
    ELSE None

liquidity_coverage(inp, installment) ==
    LET opex == total_operating_expenses(inp)
    IN  IF /\ Present(inp.additional_savings_equity) /\ Present(opex)
           /\ Present(inp.cogs_inventory) /\ Present(installment)
           /\ Present(inp.owner_withdrawals)
        THEN safe_divide(inp.additional_savings_equity,
                 Add(Add(Add(inp.cogs_inventory, opex), installment), inp.owner_withdrawals))
        ELSE None

haircut(inp) ==
    IF inp.collateral_type = "Movable" THEN Rat(5, 10)
    ELSE IF inp.collateral_type = "Immovable" THEN Rat(3, 10)
    ELSE Num(0)

ltv(inp) ==
    IF /\ Present(inp.requested_loan_amount) /\ Present(inp.market_value)
       /\ inp.collateral_type # ""
    THEN IF inp.collateral_type = "None" THEN Num(99)
         ELSE LET net_collateral == Mul(inp.market_value, Sub(Num(1), haircut(inp)))
              IN  safe_divide(inp.requested_loan_amount, net_collateral)
    ELSE None

score_character(inp, lk) ==
    LET years_in_business == inp.years_in_business_months
        raw ==
            (IF inp.training_certification = "Yes" THEN 5 ELSE 0)
          + (IF inp.sex = "F" THEN 3 ELSE 0)
          + (IF IsNone(years_in_business) THEN 0
             ELSE IF Geq(years_in_business, Num(36)) THEN 12
             ELSE IF Geq(years_in_business, Num(24)) THEN 10
             ELSE IF Geq(years_in_business, Num(12)) THEN 6
             ELSE 0)
          + (IF inp.character_references = "Good" THEN 5
             ELSE IF inp.character_references = "Average" THEN 2
             ELSE 0)
          + (IF Present(inp.age_years) /\ Geq(inp.age_years, Num(40)) THEN 2 ELSE 0)
          + (IF inp.marital_status = "Married" THEN 1 ELSE 0)
          + (IF inp.repeat_borrower = "Yes" THEN 3 ELSE 0)
          + (IF /\ inp.repeat_borrower = "Yes" /\ Present(inp.loan_series)
                /\ Geq(inp.loan_series, Num(3))
             THEN 5 ELSE 0)
    IN  RatMin(lk.W_CHARACTER, Num(raw))

score_capacity(stressed_dscr, lk) ==
    LET raw == IF IsNone(stressed_dscr) THEN 0
               ELSE IF Geq(stressed_dscr, Rat(15, 10)) THEN 34
               ELSE IF Geq(stressed_dscr, lk.DSCR_TARGET) THEN 28
               ELSE IF Geq(stressed_dscr, Rat(11, 10)) THEN 18
               ELSE IF Geq(stressed_dscr, Rat(9, 10)) THEN 8
               ELSE 0
    IN  RatMin(lk.W_CAPACITY, Num(raw))

score_capital(equity, lk) ==
    LET raw == IF IsNone(equity) THEN 0
               ELSE IF Geq(equity, Rat(2, 10)) THEN 15
               ELSE IF Geq(equity, Rat(15, 100)) THEN 12
               ELSE IF Geq(equity, lk.EQUITY_MIN_RATIO) THEN 8
               ELSE IF Geq(equity, Rat(5, 100)) THEN 3
               ELSE 0
    IN  RatMin(lk.W_CAPITAL, Num(raw))

score_collateral(inp, lk, ltv_value) ==
    LET tier == IF IsNone(ltv_value) THEN 0
                ELSE IF \/ inp.collateral_type = "Movable" /\ Leq(ltv_value, Num(1))
                        \/ inp.collateral_type = "Immovable" /\ Leq(ltv_value, Num(1))
                     THEN 10
                ELSE IF \/ inp.collateral_type = "Movable" /\ Leq(ltv_value, lk.LTV_MAX_MOVABLE)
                        \/ inp.collateral_type = "Immovable" /\ Leq(ltv_value, lk.LTV_MAX_IMMOVABLE)
                     THEN 6
                ELSE 0
        raw == IF inp.collateral_type = "None" THEN 0
               ELSE IF inp.collateral_insured = "No" THEN tier - 2 ELSE tier
    IN  RatMin(lk.W_COLLATERAL, Num(raw))

\* {"Trade": 3, "Service": 2, "Agriculture": 1, "Manufacturing": 1, "Other": 0}.get(sector, 0)
sector_score(sector) ==
    IF sector = "Trade" THEN 3
    ELSE IF sector = "Service" THEN 2
    ELSE IF sector = "Agriculture" THEN 1
    ELSE IF sector = "Manufacturing" THEN 1
    ELSE 0

score_conditions(inp, lk) ==
    LET years_in_business == inp.years_in_business_months
        raw ==
            (IF inp.site_visit_assessment >= 4 THEN 5
             ELSE IF inp.site_visit_assessment = 3 THEN 3
             ELSE 0)
          + (IF inp.is_business_seasonal = "No" THEN 2 ELSE 0)
          + (IF /\ Present(years_in_business) /\ Present(inp.stability_months)
                /\ inp.stability_months = years_in_business
                /\ Geq(years_in_business, Num(6))
             THEN 2 ELSE 0)
          + sector_score(inp.sector)
    IN  RatMin(lk.W_CONDITION, Num(raw))

\* total_score also counting the result the session already holds (state
\* outside the three arguments)
total_score_Ambient(character, capacity, capital, collateral, conditions) ==
    RatMax(Num(1),
           RatMin(Num(99), Add(Add(Add(Add(Add(character, capacity), capital), collateral),
                                   conditions),
                               Num(Len(session_state.last_result)))))

\* the sum of the five category scores, clamped: max(1, min(99, total))
total_score(character, capacity, capital, collateral, conditions) ==
    RatMax(Num(1),
           RatMin(Num(99), Add(Add(Add(Add(character, capacity), capital), collateral),
                               conditions)))

\* requested amount strictly above a limit of the policy
exceeds_limit_Inclusive(amount, limit) == Present(amount) /\ Geq(amount, limit)

exceeds_limit(amount, limit) == Present(amount) /\ Gt(amount, limit)

FlagNames ==
    { "Age_Flag", "CFDeficit_Flag", "Income_Var_Flag", "Equity_Flag", "Training_Flag",
      "LTV_Flag", "Collateral_Flag", "Branch_Limit_Flag", "Loan_Max_Flag", "Default_Flag" }

\* the local dict flags
flags(inp, lk, installment, surplus_unstressed, share, variance, equity, ltv_value) ==
    [ Age_Flag |->
          \/ IsNone(inp.years_in_business_months)
          \/ Lt(inp.years_in_business_months, lk.BUSINESS_AGE_MIN),
      CFDeficit_Flag |->
          /\ Present(surplus_unstressed)
          /\ Present(installment)
          /\ \/ Leq(surplus_unstressed, Num(0))
             \/ Present(share) /\ Gt(share, lk.CASHFLOW_DEFICIT_REPAY_SHARE_MAX),
      Income_Var_Flag |-> Present(variance) /\ Gt(variance, lk.DATA_VARIANCE_MAX),
      Equity_Flag |-> Present(equity) /\ Lt(equity, lk.EQUITY_MIN_RATIO),
      Training_Flag |-> inp.training_certification = "No",
      LTV_Flag |->
          /\ Present(ltv_value)
          /\ \/ inp.collateral_type = "Movable" /\ Gt(ltv_value, lk.LTV_MAX_MOVABLE)
             \/ inp.collateral_type = "Immovable" /\ Gt(ltv_value, lk.LTV_MAX_IMMOVABLE),
      Collateral_Flag |->
          /\ inp.collateral_type # ""
          /\ inp.collateral_insured # ""
          /\ \/ inp.collateral_insured = "No"
             \/ inp.collateral_type = "None",
      Branch_Limit_Flag |->
          exceeds_limit(inp.requested_loan_amount, lk.BRANCH_APPROVAL_LIMIT_ETB),
      Loan_Max_Flag |->
          exceeds_limit(inp.requested_loan_amount, lk.BUSINESS_LOAN_HARD_MAX_ETB),
      Default_Flag |-> inp.prior_default = "Yes" ]

When(cond, message) == IF cond THEN <<message>> ELSE <<>>

\* triggered_flags with the no-collateral message under the collateral flag
triggered_flags_Gated(fl, collateral_type) ==
       When(fl.Age_Flag, "REJECT: Business less than 6 months")
    \o When(fl.CFDeficit_Flag, "REJECT: Cash flow deficit (repayment >50% of surplus)")
    \o When(fl.Income_Var_Flag, "REJECT: Data inconsistency (>20% variance)")
    \o When(fl.Default_Flag, "REJECT: Prior default with HMFI")
    \o When(fl.Loan_Max_Flag, "REJECT: Above hard max loan amount")
    \o When(fl.Equity_Flag, "REFER: Equity <10% of loan")
    \o When(fl.Training_Flag, "REFER: No training/certification")
    \o When(fl.LTV_Flag, "REFER: Collateral shortfall (LTV too high)")
    \o When(fl.Collateral_Flag, "REFER: Collateral not insured")
    \o When(fl.Branch_Limit_Flag, "REFER: Above branch approval limit")
    \o When(fl.Collateral_Flag /\ collateral_type = "None", "REJECT: No Collateral")

triggered_flags(fl, collateral_type) ==
       When(fl.Age_Flag, "REJECT: Business less than 6 months")
    \o When(fl.CFDeficit_Flag, "REJECT: Cash flow deficit (repayment >50% of surplus)")
    \o When(fl.Income_Var_Flag, "REJECT: Data inconsistency (>20% variance)")
    \o When(fl.Default_Flag, "REJECT: Prior default with HMFI")
    \o When(fl.Loan_Max_Flag, "REJECT: Above hard max loan amount")
    \o When(fl.Equity_Flag, "REFER: Equity <10% of loan")
    \o When(fl.Training_Flag, "REFER: No training/certification")
    \o When(fl.LTV_Flag, "REFER: Collateral shortfall (LTV too high)")
    \o When(fl.Collateral_Flag, "REFER: Collateral not insured")
    \o When(fl.Branch_Limit_Flag, "REFER: Above branch approval limit")
    \o When(collateral_type = "None", "REJECT: No Collateral")

\* recommendation without the prior-default flag among the hard stops
recommendation_NoDefault(fl, collateral_type, score) ==
    IF \/ fl.Age_Flag \/ fl.CFDeficit_Flag \/ fl.Income_Var_Flag
       \/ fl.Loan_Max_Flag
       \/ collateral_type = "None"
    THEN "REJECT"
    ELSE IF Leq(score, Num(54)) THEN "REJECT"
    ELSE IF fl.Branch_Limit_Flag \/ fl.LTV_Flag \/ fl.Collateral_Flag
    THEN "REFER - HEAD OFFICE"
    ELSE IF Leq(score, Num(69)) \/ fl.Equity_Flag \/ fl.Training_Flag
    THEN "APPROVE WITH CONDITIONS - BRANCH MANAGER"
    ELSE "APPROVE"

\* recommendation rejecting on score < 54 where the source has <= 54
recommendation_StrictReject(fl, collateral_type, score) ==
    IF \/ fl.Age_Flag \/ fl.CFDeficit_Flag \/ fl.Income_Var_Flag
       \/ fl.Default_Flag \/ fl.Loan_Max_Flag
       \/ collateral_type = "None"
    THEN "REJECT"
    ELSE IF Lt(score, Num(54)) THEN "REJECT"
    ELSE IF fl.Branch_Limit_Flag \/ fl.LTV_Flag \/ fl.Collateral_Flag
    THEN "REFER - HEAD OFFICE"
    ELSE IF Leq(score, Num(69)) \/ fl.Equity_Flag \/ fl.Training_Flag
    THEN "APPROVE WITH CONDITIONS - BRANCH MANAGER"
    ELSE "APPROVE"

\* recommendation with the conditional-approval test ahead of the referral test
recommendation_ConditionsFirst(fl, collateral_type, score) ==
    IF \/ fl.Age_Flag \/ fl.CFDeficit_Flag \/ fl.Income_Var_Flag
       \/ fl.Default_Flag \/ fl.Loan_Max_Flag
       \/ collateral_type = "None"
    THEN "REJECT"
    ELSE IF Leq(score, Num(54)) THEN "REJECT"
    ELSE IF Leq(score, Num(69)) \/ fl.Equity_Flag \/ fl.Training_Flag
    THEN "APPROVE WITH CONDITIONS - BRANCH MANAGER"
    ELSE IF fl.Branch_Limit_Flag \/ fl.LTV_Flag \/ fl.Collateral_Flag
    THEN "REFER - HEAD OFFICE"
    ELSE "APPROVE"

\* the if/elif chain that ends calculate_scorecard (the source writes the two
\* long labels with an en dash; the model writes an ASCII hyphen)
recommendation(fl, collateral_type, score) ==
    IF \/ fl.Age_Flag \/ fl.CFDeficit_Flag \/ fl.Income_Var_Flag
       \/ fl.Default_Flag \/ fl.Loan_Max_Flag
       \/ collateral_type = "None"
    THEN "REJECT"
    ELSE IF Leq(score, Num(54)) THEN "REJECT"
    ELSE IF fl.Branch_Limit_Flag \/ fl.LTV_Flag \/ fl.Collateral_Flag
    THEN "REFER - HEAD OFFICE"
    ELSE IF Leq(score, Num(69)) \/ fl.Equity_Flag \/ fl.Training_Flag
    THEN "APPROVE WITH CONDITIONS - BRANCH MANAGER"
    ELSE "APPROVE"

\* The call's outcome: "raised" when pmt raises (nothing is returned), else
\* "returned" with value the returned dict; flags is the local dict flags, which
\* the source does not return, kept here so that properties can refer to it.
calculate_scorecard(inp, lk, stress) ==
    LET installment == monthly_installment_used(inp)
    IN  IF IsRaised(installment) THEN [outcome |-> "raised"]
        ELSE
        LET surplus_stressed == total_monthly_surplus_stressed(inp, stress)
            surplus_unstressed == total_monthly_surplus_unstressed(inp)
            stressed_dscr == safe_divide(surplus_stressed, installment)
            dscr == safe_divide(business_surplus_unstressed(inp), installment)
            share == repayment_share(installment, surplus_unstressed)
            variance == income_variance(inp)
            equity == equity_ratio(inp)
            ltv_value == ltv(inp)
            character == score_character(inp, lk)
            capacity == score_capacity(stressed_dscr, lk)
            capital == score_capital(equity, lk)
            collateral == score_collateral(inp, lk, ltv_value)
            conditions == score_conditions(inp, lk)
            total == total_score(character, capacity, capital, collateral, conditions)
            fl == flags(inp, lk, installment, surplus_unstressed, share, variance,
                        equity, ltv_value)
        IN  [ outcome |-> "returned",
              flags |-> fl,
              value |->
                [ stress_factor |-> stress_factor(inp, stress),
                  monthly_installment_used |-> installment,
                  total_operating_expenses |-> total_operating_expenses(inp),
                  business_surplus_unstressed |-> business_surplus_unstressed(inp),
                  business_surplus_stressed |-> business_surplus_stressed(inp, stress),
                  total_monthly_surplus_stressed |-> surplus_stressed,
                  total_monthly_surplus_unstressed |-> surplus_unstressed,
                  stressed_dscr |-> stressed_dscr,
                  dscr |-> dscr,
                  repayment_share |-> share,
                  income_variance |-> variance,
                  equity_ratio |-> equity,
                  liquidity_coverage |-> liquidity_coverage(inp, installment),
                  haircut |-> haircut(inp),
                  collateral_coverage |-> safe_divide(Num(1), ltv_value),
                  ltv |-> ltv_value,
                  score_character |-> character,
                  score_capacity |-> capacity,
                  score_capital |-> capital,
                  score_collateral |-> collateral,
                  score_conditions |-> conditions,
                  total_score |-> total,
                  risk_band |-> risk_band(total),
                  triggered_flags |-> triggered_flags(fl, inp.collateral_type),
                  recommendation |-> recommendation(fl, inp.collateral_type, total) ] ]

(***************************************************************************)
(* The applications and policies the engine is evaluated on: the shipped   *)
(* defaults with at most MaxEdits of the edits below applied.  An edit     *)
(* names a field of the application record, of the lookup values or of     *)
(* the sector stress mapping, and the value it takes.  Every optional      *)
(* number may be None or any number; the portal's number inputs accept     *)
(* any value from 0.0 up.                                                  *)
(***************************************************************************)
Edits ==
    << <<"inputs", "sex", "F">>,
       <<"inputs", "marital_status", "Single">>,
       <<"inputs", "repeat_borrower", "Yes">>,
       <<"inputs", "is_business_seasonal", "Yes">>,
       <<"inputs", "prior_default", "Yes">>,
       <<"inputs", "sector", "">>,
       <<"inputs", "sector", "Other">>,
       <<"inputs", "sector", "Mining">>,
       <<"inputs", "training_certification", "No">>,
       <<"inputs", "character_references", "Average">>,
       <<"inputs", "collateral_type", "">>,
       <<"inputs", "collateral_type", "Immovable">>,
       <<"inputs", "collateral_type", "None">>,
       <<"inputs", "collateral_insured", "">>,
       <<"inputs", "collateral_insured", "No">>,
       <<"inputs", "site_visit_assessment", 0>>,
       <<"inputs", "site_visit_assessment", 4>>,
       <<"inputs", "age_years", Num(40)>>,
       <<"inputs", "loan_series", Num(3)>>,
       <<"inputs", "stability_months", Num(12)>>,
       <<"inputs", "requested_loan_amount", None>>,
       <<"inputs", "requested_loan_amount", Num(0)>>,
       <<"inputs", "requested_loan_amount", Num(60000)>>,
       <<"inputs", "requested_loan_amount", Num(400000)>>,
       <<"inputs", "monthly_installment_override", None>>,
       <<"inputs", "monthly_installment_override", Num(0)>>,
       <<"inputs", "monthly_installment_override", Num(1000)>>,
       <<"inputs", "term_months", None>>,
       <<"inputs", "term_months", Num(0)>>,
       <<"inputs", "term_months", Num(2)>>,
       <<"inputs", "annual_interest_rate", None>>,
       <<"inputs", "annual_interest_rate", Num(0)>>,
       <<"inputs", "annual_interest_rate", Num(1200)>>,
       <<"inputs", "annual_interest_rate", Num(-1200)>>,
       <<"inputs", "annual_interest_rate", Num(-2400)>>,
       <<"inputs", "years_in_business_months", None>>,
       <<"inputs", "years_in_business_months", Num(3)>>,
       <<"inputs", "years_in_business_months", Num(36)>>,
       <<"inputs", "stated_revenue", None>>,
       <<"inputs", "stated_revenue", Num(40000)>>,
       <<"inputs", "verified_revenue", None>>,
       <<"inputs", "verified_revenue", Num(0)>>,
       <<"inputs", "verified_revenue", Num(24500)>>,
       <<"inputs", "cogs_inventory", None>>,
       <<"inputs", "rent", None>>,
       <<"inputs", "other_monthly_income", None>>,
       <<"inputs", "total_capital", None>>,
       <<"inputs", "additional_savings_equity", None>>,
       <<"inputs", "market_value", None>>,
       <<"inputs", "market_value", Num(0)>>,
       <<"inputs", "market_value", Num(50000)>>,
       <<"inputs", "market_value", Num(100000)>>,
       <<"lookups", "DSCR_TARGET", Rat(4, 10)>>,
       <<"lookups", "DSCR_TARGET", Rat(16, 10)>>,
       <<"lookups", "CASHFLOW_DEFICIT_REPAY_SHARE_MAX", Num(2)>>,
       <<"lookups", "LTV_MAX_MOVABLE", Rat(5, 10)>>,
       <<"lookups", "EQUITY_MIN_RATIO", Rat(7, 10)>>,
       <<"lookups", "DATA_VARIANCE_MAX", Rat(5, 100)>>,
       <<"lookups", "BUSINESS_AGE_MIN", Num(30)>>,
       <<"lookups", "BRANCH_APPROVAL_LIMIT_ETB", Num(40000)>>,
       <<"lookups", "BUSINESS_LOAN_HARD_MAX_ETB", Num(40000)>>,
       <<"lookups", "W_CHARACTER", Rat(19, 2)>>,
       <<"lookups", "W_CAPACITY", Num(18)>>,
       <<"lookups", "W_CAPITAL", Rat(25, 2)>>,
       <<"lookups", "W_COLLATERAL", Num(0)>>,
       <<"lookups", "W_CONDITION", Rat(15, 2)>>,
       <<"sector_stress", "Trade", Num(1)>> >>

DefaultCase ==
    [ inputs        |-> CUSTOMER_INPUT_DEFAULTS,
      lookups       |-> DEFAULT_LOOKUP_VALUES,
      sector_stress |-> DEFAULT_SECTOR_STRESS ]

\* the case c with the field an edit names set to the edit's value
Apply(c, e) ==
    IF e[1] = "inputs" THEN [c EXCEPT !.inputs[e[2]] = e[3]]
    ELSE IF e[1] = "lookups" THEN [c EXCEPT !.lookups[e[2]] = e[3]]
    ELSE [c EXCEPT !.sector_stress[e[2]] = e[3]]

\* the variables hold c, or c with up to k more of the edits from Edits[lo] on
RECURSIVE Drawn(_, _, _)
Drawn(c, k, lo) ==
    \/ /\ inputs = c.inputs
       /\ lookups = c.lookups
       /\ sector_stress = c.sector_stress
    \/ /\ k > 0
       /\ \E i \in lo..Len(Edits) : Drawn(Apply(c, Edits[i]), k - 1, i + 1)

\* The model evaluates the amortizing branch of pmt exactly, which it can only
\* for a whole monthly rate and a whole term of at most MaxPeriods months
\* (a fractional rate to the power 12 is beyond the integers of the checker).
Representable(inp) ==
    IF \/ Present(inp.monthly_installment_override)
       \/ IsNone(inp.requested_loan_amount)
       \/ IsNone(inp.term_months)
       \/ IsNone(inp.annual_interest_rate)
    THEN TRUE
    ELSE IF IsZero(inp.annual_interest_rate) \/ IsZero(inp.term_months)
    THEN TRUE
    ELSE /\ IsInteger(Quot(inp.annual_interest_rate, Num(1200)))
         /\ IsInteger(inp.term_months)
         /\ Abs(inp.term_months[1]) <= MaxPeriods

(***************************************************************************)
(* The decision rules put to every score and flag combination.             *)
(***************************************************************************)
NoFlags == [f \in FlagNames |-> FALSE]

\* every whole score 1..99 with every combination of the ten flags, with and
\* without collateral
WholeProbes ==
    [ total_score : {Num(n) : n \in 1..99},
      flags : [FlagNames -> BOOLEAN],
      collateral_type : {"Movable", "None"} ]

\* the scores between the whole ones (a fractional weight cap gives a
\* fractional total), with no flag set
FractionalProbes ==
    [ total_score : {Rat(n, ScoreDen) : n \in ScoreDen..(99 * ScoreDen)},
      flags : {NoFlags},
      collateral_type : {"Movable"} ]

IdleProbe == [total_score |-> Num(1), flags |-> NoFlags, collateral_type |-> "Movable"]

\* the last two steps of calculate_scorecard on a probe
decide(p) ==
    [ recommendation |-> recommendation(p.flags, p.collateral_type, p.total_score),
      risk_band |-> risk_band(p.total_score) ]

(***************************************************************************)
(* The session: st.session_state as the wizard and the lookup portal use   *)
(* it.  What the user types into a text or number field is a sequence of   *)
(* characters; a selection is one of the strings of its option list.       *)
(* Dictionaries that the source shares by reference (the module-level      *)
(* default tables, the session's lookup_values and sector_stress, a        *)
(* returned result) are objects of a heap, named by their identifiers.     *)
(***************************************************************************)
DigitChars == <<"0", "1", "2", "3", "4", "5", "6", "7", "8", "9">>

IsDigit(c) == \E d \in 1..10 : DigitChars[d] = c

DigitValue(c) == (CHOOSE d \in 1..10 : DigitChars[d] = c) - 1

\* the decimal text of a natural number, as the string literals of the source
RECURSIVE Decimal(_)
Decimal(n) ==
    IF n < 10 THEN <<DigitChars[n + 1]>>
    ELSE Decimal(n \div 10) \o <<DigitChars[(n % 10) + 1]>>

\* CUSTOMER_INPUT_DEFAULTS as the source writes it: the values the session
\* holds for the widgets' keys before parsing.  Left out are the keys that
\* neither step_missing_fields nor calculate_scorecard reads (literacy,
\* ownership, business_type, loan_purpose) and application_date.
SessionDefaults ==
    [ credit_officer_id            |-> <<"C", "O", "-", "0", "0", "1">>,
      credit_officer_name          |-> <<"S", "a", "m", "p", "l", "e", " ", "O", "f", "f", "i", "c", "e", "r">>,
      applicant_name               |-> <<"S", "a", "m", "p", "l", "e", " ", "A", "p", "p", "l", "i", "c", "a", "n", "t">>,
      applicant_id                 |-> <<"A", "P", "P", "-", "0", "0", "0", "1">>,
      sex                          |-> "M",
      age_years                    |-> Decimal(35),
      marital_status               |-> "Married",
      repeat_borrower              |-> "No",
      loan_series                  |-> "2",
      prior_default                |-> "No",
      branch                       |-> "Head Office",
      requested_loan_amount        |-> Decimal(50000),
      monthly_installment_override |-> Decimal(4584),
      term_months                  |-> Decimal(12),
      annual_interest_rate         |-> Decimal(18),
      business_name                |-> <<"S", "a", "m", "p", "l", "e", " ", "B", "u", "s", "i", "n", "e", "s", "s">>,
      site_visit_assessment        |-> 3,
      sector                       |-> "Trade",
      training_certification       |-> "Yes",
      is_business_seasonal         |-> "No",
      years_in_business_months     |-> Decimal(24),
      character_references         |-> "Good",
      stability_months             |-> Decimal(24),
      stated_revenue               |-> Decimal(30000),
      verified_revenue             |-> Decimal(28000),
      cogs_inventory               |-> Decimal(12000),
      other_monthly_income         |-> Decimal(2000),
      rent                         |-> Decimal(3000),
      household_expenses           |-> Decimal(5000),
      utilities                    |-> Decimal(800),
      owner_withdrawals            |-> Decimal(1500),
      wages                        |-> Decimal(2500),
      transport                    |-> Decimal(700),
      other_operating_costs        |-> Decimal(1000),
      total_capital                |-> Decimal(20000),
      additional_savings_equity    |-> Decimal(10000),
      collateral_type              |-> "Movable",
      collateral_insured           |-> "Yes",
      market_value                 |-> Decimal(150000) ]

\* keys of st.text_input widgets (free text)
TextKeys ==
    {"credit_officer_id", "credit_officer_name", "applicant_name", "applicant_id",
     "business_name"}

\* keys of optional_number widgets (text parsed to an optional float)
NumberKeys ==
    { "age_years", "requested_loan_amount", "monthly_installment_override",
      "term_months", "annual_interest_rate", "years_in_business_months", "stability_months",
      "stated_revenue", "verified_revenue", "cogs_inventory", "other_monthly_income", "rent",
      "household_expenses", "utilities", "owner_withdrawals", "wages", "transport",
      "other_operating_costs", "total_capital", "additional_savings_equity", "market_value" }

NotComma(c) == c # ","

RECURSIVE LStrip(_)
LStrip(s) == IF s # <<>> /\ Head(s) = " " THEN LStrip(Tail(s)) ELSE s

RECURSIVE RStrip(_)
RStrip(s) ==
    IF s # <<>> /\ s[Len(s)] = " " THEN RStrip(SubSeq(s, 1, Len(s) - 1)) ELSE s

\* str.strip()
strip(s) == RStrip(LStrip(s))

RECURSIVE NatOf(_)
NatOf(digits) ==
    IF digits = <<>> THEN 0
    ELSE NatOf(SubSeq(digits, 1, Len(digits) - 1)) * 10 + DigitValue(digits[Len(digits)])

RECURSIVE Pow10(_)
Pow10(k) == IF k = 0 THEN 1 ELSE 10 * Pow10(k - 1)

\* float(text) for texts of the form [sign] digits [. digits]; every other
\* text over the characters of the model makes float raise ValueError (Raised)
float(text) ==
    LET signed == text # <<>> /\ Head(text) \in {"+", "-"}
        body == IF signed THEN Tail(text) ELSE text
        dots == {i \in 1..Len(body) : body[i] = "."}
        wellFormed ==
            /\ Cardinality(dots) <= 1
            /\ Len(body) > Cardinality(dots)
            /\ \A i \in (1..Len(body)) \ dots : IsDigit(body[i])
    IN  IF ~wellFormed THEN Raised
        ELSE LET digits == SelectSeq(body, IsDigit)
                 decimals == IF dots = {} THEN 0
                             ELSE Len(body) - (CHOOSE i \in dots : TRUE)
                 magnitude == Rat(NatOf(digits), Pow10(decimals))
             IN  IF signed /\ Head(text) = "-" THEN Neg(magnitude) ELSE magnitude

\* parse_optional_float: the parsed value, and whether an error message is given
parse_optional_float(raw_value) ==
    LET cleaned == strip(SelectSeq(raw_value, NotComma))
    IN  IF cleaned = <<>> THEN [value |-> None, error |-> FALSE]
        ELSE IF IsRaised(float(cleaned)) THEN [value |-> None, error |-> TRUE]
        ELSE [value |-> float(cleaned), error |-> FALSE]

parse_number_from_state(fields, key) == parse_optional_float(fields[key]).value

is_non_empty(fields, key) ==
    IF key \in TextKeys \cup NumberKeys THEN strip(fields[key]) # <<>>
    ELSE IF key = "site_visit_assessment" THEN TRUE
    ELSE fields[key] # ""

\* is_number_filled accepting any text that is not blank
is_number_filled_NotBlank(fields, key) == strip(fields[key]) # <<>>

is_number_filled(fields, key) == Present(parse_number_from_state(fields, key))

\* the labels of the checked keys that fail their test, in the order checked
MissingLabels(fields, checks, Filled(_, _)) ==
    LET Fails(check) == ~Filled(fields, check[1])
        failed == SelectSeq(checks, Fails)
    IN  [i \in 1..Len(failed) |-> failed[i][2]]

step_missing_fields(fields, step) ==
    IF step = 1
    THEN   MissingLabels(fields,
               << <<"credit_officer_id", "Credit Officer ID">>,
                  <<"credit_officer_name", "Credit Officer Name">>,
                  <<"applicant_name", "Applicant Name">>,
                  <<"applicant_id", "Applicant ID">>,
                  <<"sex", "Sex">>,
                  <<"branch", "Branch">>,
                  <<"repeat_borrower", "Repeat Borrower">>,
                  <<"prior_default", "Prior Default">> >>, is_non_empty)
        \o MissingLabels(fields,
               << <<"age_years", "Age (years)">>,
                  <<"requested_loan_amount", "Requested Loan Amount">> >>, is_number_filled)
        \o When(/\ ~is_number_filled(fields, "monthly_installment_override")
                /\ ~(/\ is_number_filled(fields, "term_months")
                     /\ is_number_filled(fields, "annual_interest_rate")),
                "Monthly Installment override OR both Term (months) and Annual Interest Rate")
    ELSE IF step = 2
    THEN   MissingLabels(fields,
               << <<"business_name", "Business Name">>,
                  <<"sector", "Sector">>,
                  <<"training_certification", "Training/Certification">>,
                  <<"is_business_seasonal", "Is Business Seasonal">>,
                  <<"character_references", "Character References">> >>, is_non_empty)
        \o MissingLabels(fields,
               << <<"years_in_business_months", "Years in Business">>,
                  <<"stability_months", "Stability of Business Location">> >>,
               is_number_filled)
    ELSE IF step = 3
    THEN MissingLabels(fields,
               << <<"stated_revenue", "Stated Revenue">>,
                  <<"verified_revenue", "Verified Revenue">>,
                  <<"cogs_inventory", "COGS / Inventory">>,
                  <<"rent", "Rent">>,
                  <<"utilities", "Utilities">>,
                  <<"wages", "Wages">>,
                  <<"transport", "Transport">>,
                  <<"other_operating_costs", "Other Operating Costs">>,
                  <<"other_monthly_income", "Other Monthly Income">>,
                  <<"household_expenses", "Household Expenses">>,
                  <<"owner_withdrawals", "Owner Withdrawals">> >>, is_number_filled)
    ELSE IF step = 4
    THEN MissingLabels(fields,
               << <<"total_capital", "Total Capital">>,
                  <<"additional_savings_equity",
                    "Cash at Bank / Additional Savings / Equity">> >>, is_number_filled)
    ELSE IF step = 5
    THEN   When(~is_non_empty(fields, "collateral_type"), "Collateral Type")
        \o When(~is_non_empty(fields, "collateral_insured"), "Collateral Insured")
        \o When(/\ fields.collateral_type \in {"Movable", "Immovable"}
                /\ ~is_number_filled(fields, "market_value"), "Market Value")
    ELSE <<>>

\* float(loan_series_raw) on the options of the Loan Series selectbox
loan_series_value(loan_series_raw) ==
    IF loan_series_raw = "" THEN None
    ELSE IF loan_series_raw = "5+" THEN Num(5)
    ELSE float(<<loan_series_raw>>)

\* the typed record handed to the engine (the keys the engine reads)
build_inputs_from_state(fields) ==
    [ key \in DOMAIN CUSTOMER_INPUT_DEFAULTS |->
        IF key \in NumberKeys THEN parse_number_from_state(fields, key)
        ELSE IF key = "loan_series" THEN loan_series_value(fields[key])
        ELSE fields[key] ]

\* dict.update
update(old, new) ==
    [key \in DOMAIN old \cup DOMAIN new |-> IF key \in DOMAIN new THEN new[key] ELSE old[key]]

\* the keys the lookup portal's form writes back on Save
FormLookupKeys ==
    { "DSCR_TARGET", "CASHFLOW_DEFICIT_REPAY_SHARE_MAX", "LTV_MAX_MOVABLE",
      "LTV_MAX_IMMOVABLE", "EQUITY_MIN_RATIO", "DATA_VARIANCE_MAX", "BUSINESS_AGE_MIN",
      "BRANCH_APPROVAL_LIMIT_ETB", "BUSINESS_LOAN_HARD_MAX_ETB", "W_CHARACTER",
      "W_CAPACITY", "W_CAPITAL", "W_COLLATERAL", "W_CONDITION" }

FormStressKeys == {"Trade", "Service", "Manufacturing", "Agriculture", "Other"}

\* the objects the program can still reach: the two module-level tables, the
\* session's two policy dictionaries and its last result
Live(ss) ==
    {1, 2, ss.lookup_values, ss.sector_stress}
        \cup {ss.last_result[i] : i \in 1..Len(ss.last_result)}

\* the identifier of a newly created object: one that names no reachable object
NewObject(hp, live) ==
    CHOOSE o \in 1..(Cardinality(live) + 1) : o \notin live /\ \A p \in 1..(o - 1) : p \in live

\* the heap with obj stored under ref
Store(hp, ref, obj) == [o \in DOMAIN hp \cup {ref} |-> IF o = ref THEN obj ELSE hp[o]]

\* the heap without the objects nothing refers to any more
Collect(hp, live) == [o \in DOMAIN hp \cap live |-> hp[o]]

\* dict.copy(): a new object with the contents of the object ref names
copy_Aliased(hp, live, ref) == [heap |-> hp, ref |-> ref]

copy(hp, live, ref) ==
    LET new == NewObject(hp, live)
    IN  [heap |-> Store(hp, new, hp[ref]), ref |-> new]

(***************************************************************************)
(* Spec: the engine evaluated on an application and a policy.              *)
(***************************************************************************)
NotEvaluated == [outcome |-> "none"]

\* main() on a new session: init_state copies the default tables into the
\* session and sets the widget keys, show_scorecard starts the wizard at step 1
init_state ==
    LET module == (1 :> DEFAULT_LOOKUP_VALUES) @@ (2 :> DEFAULT_SECTOR_STRESS)
        lookup_values == copy(module, {1, 2}, 1)
        stress == copy(lookup_values.heap, {1, 2, lookup_values.ref}, 2)
    IN  /\ heap = stress.heap
        /\ session_state =
               [ scorecard_step |-> 1,
                 fields         |-> SessionDefaults,
                 lookup_values  |-> lookup_values.ref,
                 sector_stress  |-> stress.ref,
                 last_result    |-> <<>> ]
        /\ event = "init_state"
        /\ remembered = <<>>

Init ==
    /\ Drawn(DefaultCase, MaxEdits, 1)
    /\ result = NotEvaluated
    /\ probe = IdleProbe
    /\ verdict = decide(IdleProbe)
    /\ init_state

Evaluate ==
    /\ result.outcome = "none"
    /\ Representable(inputs)
    /\ result' = calculate_scorecard(inputs, lookups, sector_stress)
    /\ UNCHANGED <<inputs, lookups, sector_stress, probe, verdict>>
    /\ UNCHANGED session_vars

Next == Evaluate

Spec == Init /\ [][Next]_vars

(***************************************************************************)
(* SpecDecision: the decision rules evaluated on a probe, then on the      *)
(* probe with one more flag raised or with a lower score.                  *)
(***************************************************************************)
DecisionInit ==
    /\ probe \in WholeProbes \cup FractionalProbes
    /\ verdict = decide(probe)
    /\ inputs = CUSTOMER_INPUT_DEFAULTS
    /\ lookups = DEFAULT_LOOKUP_VALUES
    /\ sector_stress = DEFAULT_SECTOR_STRESS
    /\ result = NotEvaluated
    /\ init_state

Redecide(p) ==
    /\ probe' = p
    /\ verdict' = decide(p)
    /\ UNCHANGED engine_vars
    /\ UNCHANGED session_vars

RaiseFlag ==
    \E f \in FlagNames :
        /\ probe \in WholeProbes
        /\ ~probe.flags[f]
        /\ Redecide([probe EXCEPT !.flags[f] = TRUE])

LoseCollateral ==
    /\ probe.collateral_type # "None"
    /\ probe \in WholeProbes
    /\ Redecide([probe EXCEPT !.collateral_type = "None"])

\* by a whole point, or between neighbouring fractional scores
LowerScore ==
    \E step \in {Num(1), Rat(1, ScoreDen)} :
        /\ Geq(Sub(probe.total_score, step), Num(1))
        /\ step = Num(1) \/ probe \in FractionalProbes
        /\ Redecide([probe EXCEPT !.total_score = Sub(probe.total_score, step)])

DecisionNext == RaiseFlag \/ LoseCollateral \/ LowerScore

SpecDecision == DecisionInit /\ [][DecisionNext]_vars

(***************************************************************************)
(* One session of the application (main): the scorecard wizard             *)
(* (show_scorecard) and the lookup portal (show_lookup_portal).  Each      *)
(* action is one script run: a widget edit on the current step, or one     *)
(* button.  The values of the widgets persist in the session across steps. *)
(* The engine variables stay idle here: what a call returns is the object  *)
(* the session keeps as last_result.                                       *)
(***************************************************************************)
EngineIdle ==
    /\ inputs = CUSTOMER_INPUT_DEFAULTS
    /\ lookups = DEFAULT_LOOKUP_VALUES
    /\ sector_stress = DEFAULT_SECTOR_STRESS
    /\ result = NotEvaluated
    /\ probe = IdleProbe
    /\ verdict = decide(IdleProbe)

SessionInit == EngineIdle /\ init_state

\* <<step, key, text or selection>>: what the user may enter on a step
WizardEdits ==
    << <<1, "credit_officer_id", <<" ">> >>,
       <<1, "requested_loan_amount", <<"x">> >>,
       <<1, "requested_loan_amount", <<" ", "6", "0", ",", "0", "0", "0", ".", "5">> >>,
       <<1, "monthly_installment_override", <<>> >>,
       <<1, "monthly_installment_override", <<"1", "0", "0", "0">> >>,
       <<1, "annual_interest_rate", <<"-", "2", "4", "0", "0">> >>,
       <<2, "sector", "">>,
       <<3, "verified_revenue", <<>> >>,
       <<4, "total_capital", <<>> >>,
       <<5, "collateral_type", "None">>,
       <<5, "market_value", <<>> >> >>

\* entries that leave every step complete and change what the engine is given
RecallEdits ==
    << <<1, "monthly_installment_override", <<>> >>,
       <<1, "monthly_installment_override", <<"1", "0", "0", "0">> >>,
       <<1, "annual_interest_rate", <<"-", "2", "4", "0", "0">> >>,
       <<5, "collateral_type", "None">> >>

Dirty(fields) == {key \in DOMAIN fields : fields[key] # SessionDefaults[key]}

\* a widget of the current step takes one of the entries, or its default again;
\* at most MaxDirty widgets are away from their defaults at a time
Edit(entries) ==
    \E i \in 1..Len(entries) :
        \E restore \in BOOLEAN :
            LET key == entries[i][2]
                value == IF restore THEN SessionDefaults[key] ELSE entries[i][3]
                fields == [session_state.fields EXCEPT ![key] = value]
            IN  /\ entries[i][1] = session_state.scorecard_step
                /\ Cardinality(Dirty(fields)) <= MaxDirty
                /\ session_state' = [session_state EXCEPT !.fields = fields]
                /\ event' = "EditField"
                /\ UNCHANGED <<heap, remembered, probe, verdict>>
                /\ UNCHANGED engine_vars

EditField == Edit(WizardEdits)

EnterValue == Edit(RecallEdits)

\* the step after the forward button, given what step_missing_fields reports
next_step_Unchecked(current_step, missing) == current_step + 1

next_step(current_step, missing) ==
    IF missing # <<>> THEN current_step ELSE current_step + 1

Previous ==
    /\ session_state.scorecard_step > 1
    /\ session_state' =
           [session_state EXCEPT !.scorecard_step = session_state.scorecard_step - 1]
    /\ event' = "Previous"
    /\ UNCHANGED <<heap, remembered, probe, verdict>>
    /\ UNCHANGED engine_vars

\* "Save and Continue" / "Review & Output"
SaveAndContinue ==
    /\ session_state.scorecard_step < 6
    /\ session_state' =
           [session_state EXCEPT !.scorecard_step =
               next_step(session_state.scorecard_step,
                         step_missing_fields(session_state.fields,
                                             session_state.scorecard_step))]
    /\ event' = "SaveAndContinue"
    /\ UNCHANGED <<heap, remembered, probe, verdict>>
    /\ UNCHANGED engine_vars

\* "Reset Form Defaults": reset_customer_defaults, then del last_result
ResetFormDefaults ==
    LET after ==
            [session_state EXCEPT !.fields = SessionDefaults,
                                  !.scorecard_step = 1,
                                  !.last_result = <<>>]
    IN  /\ session_state' = after
        /\ heap' = Collect(heap, Live(after))
        /\ event' = "ResetFormDefaults"
        /\ UNCHANGED <<remembered, probe, verdict>>
        /\ UNCHANGED engine_vars

\* what "Calculate Scorecard" hands to calculate_scorecard
Arguments ==
    [ inputs        |-> build_inputs_from_state(session_state.fields),
      lookups       |-> heap[session_state.lookup_values],
      sector_stress |-> heap[session_state.sector_stress] ]

\* the dictionary a call returns: a new object.  (The mutant returns the
\* lookups dictionary it was given, updated with the result's keys.)
return_dict_InPlace(hp, live, lookups_ref, value) ==
    [heap |-> Store(hp, lookups_ref, update(hp[lookups_ref], value)), ref |-> lookups_ref]

return_dict(hp, live, lookups_ref, value) ==
    LET new == NewObject(hp, live)
    IN  [heap |-> Store(hp, new, value), ref |-> new]

\* "Calculate Scorecard" on step 6.  A call that raises leaves the session as
\* it was; a call that returns has its dictionary stored as last_result.
\* With remember, the call may be kept for comparison with later calls.
Calculate(remember) ==
    /\ session_state.scorecard_step \notin 1..5
    /\ Representable(Arguments.inputs)
    /\ LET call == calculate_scorecard(Arguments.inputs, Arguments.lookups,
                                       Arguments.sector_stress)
       IN  /\ IF call.outcome = "returned"
              THEN LET made == return_dict(heap, Live(session_state),
                                           session_state.lookup_values, call.value)
                       after == [session_state EXCEPT !.last_result = <<made.ref>>]
                   IN  /\ session_state' = after
                       /\ heap' = Collect(made.heap, Live(after))
                       /\ event' = "CalculateScorecard"
              ELSE /\ UNCHANGED <<session_state, heap>>
                   /\ event' = "CalculateScorecard raised"
           /\ IF remember /\ remembered = <<>>
              THEN \/ UNCHANGED remembered
                   \/ remembered' =
                          << [ arguments |-> Arguments,
                               result    |-> call,
                               object    |-> IF call.outcome = "returned"
                                             THEN session_state'.last_result
                                             ELSE <<>> ] >>
              ELSE UNCHANGED remembered
           /\ UNCHANGED <<probe, verdict>>
           /\ UNCHANGED engine_vars

CalculateScorecard == Calculate(FALSE)

CalculateAndRemember == Calculate(TRUE)

\* <<table, key, value>>: what the administrator may enter in the portal's form
PortalEdits ==
    << <<"lookups", "DSCR_TARGET", Rat(16, 10)>>,
       <<"lookups", "W_CAPACITY", Num(18)>>,
       <<"sector_stress", "Trade", Num(1)>> >>

\* "Save Lookup Values": the form shows the session's current values, one of
\* them is changed (or set to its default again), and both dictionaries of the
\* session are updated with the form's values
SaveLookupValues ==
    \E i \in 1..Len(PortalEdits) :
        \E restore \in BOOLEAN :
            LET edit == PortalEdits[i]
                lookups_now == heap[session_state.lookup_values]
                stress_now == heap[session_state.sector_stress]
                entered == IF restore
                           THEN (IF edit[1] = "lookups" THEN DEFAULT_LOOKUP_VALUES[edit[2]]
                                 ELSE DEFAULT_SECTOR_STRESS[edit[2]])
                           ELSE edit[3]
                form_lookups ==
                    [key \in FormLookupKeys |->
                        IF edit[1] = "lookups" /\ key = edit[2] THEN entered
                        ELSE lookups_now[key]]
                form_stress ==
                    [key \in FormStressKeys |->
                        IF edit[1] = "sector_stress" /\ key = edit[2] THEN entered
                        ELSE stress_now[key]]
            IN  /\ heap' = Store(Store(heap, session_state.lookup_values,
                                       update(lookups_now, form_lookups)),
                                 session_state.sector_stress,
                                 update(stress_now, form_stress))
                /\ event' = "SaveLookupValues"
                /\ UNCHANGED <<session_state, remembered, probe, verdict>>
                /\ UNCHANGED engine_vars

\* "Reset Lookup Values to Workbook Defaults"
ResetLookupValues ==
    LET lookup_values == copy(heap, Live(session_state), 1)
        stress == copy(lookup_values.heap, Live(session_state) \cup {lookup_values.ref}, 2)
        after == [session_state EXCEPT !.lookup_values = lookup_values.ref,
                                       !.sector_stress = stress.ref]
    IN  /\ session_state' = after
        /\ heap' = Collect(stress.heap, Live(after))
        /\ event' = "ResetLookupValues"
        /\ UNCHANGED <<remembered, probe, verdict>>
        /\ UNCHANGED engine_vars

\* SpecWizard: the wizard under the default policy
WizardNext ==
    \/ EditField
    \/ Previous
    \/ SaveAndContinue
    \/ ResetFormDefaults
    \/ CalculateScorecard

SpecWizard == SessionInit /\ [][WizardNext]_vars

\* SpecRecall: the wizard with entries that all reach step 6, where any one
\* call may be remembered and compared with the calls after it
RecallNext ==
    \/ EnterValue
    \/ Previous
    \/ SaveAndContinue
    \/ ResetFormDefaults
    \/ CalculateAndRemember

SpecRecall == SessionInit /\ [][RecallNext]_vars

\* SpecPortal: the lookup portal and the review step, on the default form values
PortalNext ==
    \/ SaveLookupValues
    \/ ResetLookupValues
    \/ SaveAndContinue
    \/ CalculateScorecard

SpecPortal == SessionInit /\ [][PortalNext]_vars

(***************************************************************************)
(* Properties.                                                             *)
(***************************************************************************)
Returned == result.outcome = "returned"

Within(x, lo, hi) == Geq(x, lo) /\ Leq(x, hi)

\* C1: every evaluation gives a total score in [1, 99] and each of the five
\* category scores in [0, its weight cap]; no category score is negative.
C1_ScoresWithinCaps ==
    Returned =>
        /\ Within(result.value.total_score, Num(1), Num(99))
        /\ Within(result.value.score_character, Num(0), lookups.W_CHARACTER)
        /\ Within(result.value.score_capacity, Num(0), lookups.W_CAPACITY)
        /\ Within(result.value.score_capital, Num(0), lookups.W_CAPITAL)
        /\ Within(result.value.score_collateral, Num(0), lookups.W_COLLATERAL)
        /\ Within(result.value.score_conditions, Num(0), lookups.W_CONDITION)

HardStop ==
    \/ result.flags.Age_Flag
    \/ result.flags.CFDeficit_Flag
    \/ result.flags.Income_Var_Flag
    \/ result.flags.Default_Flag
    \/ result.flags.Loan_Max_Flag
    \/ inputs.collateral_type = "None"

\* C2: whenever a hard-stop condition holds (business-age, cash-flow-deficit,
\* income-variance, prior-default or loan-hard-max flag, or collateral type
\* "None"), the recommendation is "REJECT", whatever the score and other flags.
C2_HardStopRejects ==
    Returned /\ HardStop => result.value.recommendation = "REJECT"

\* a hard stop met by a score that would otherwise approve
C2_Witness ==
    /\ Returned
    /\ result.flags.Default_Flag
    /\ Geq(result.value.total_score, Num(85))
    /\ result.value.recommendation = "REJECT"

\* the ordered rules of the decision, as conditions on a probe
RuleApplies(i, p) ==
    CASE i = 1 -> \/ p.flags.Age_Flag \/ p.flags.CFDeficit_Flag \/ p.flags.Income_Var_Flag
                  \/ p.flags.Default_Flag \/ p.flags.Loan_Max_Flag
                  \/ p.collateral_type = "None"
      [] i = 2 -> Leq(p.total_score, Num(54))
      [] i = 3 -> p.flags.Branch_Limit_Flag \/ p.flags.LTV_Flag \/ p.flags.Collateral_Flag
      [] i = 4 -> \/ Leq(p.total_score, Num(69))
                  \/ p.flags.Equity_Flag \/ p.flags.Training_Flag
      [] i = 5 -> TRUE

RuleOutcome ==
    << "REJECT", "REJECT", "REFER - HEAD OFFICE",
       "APPROVE WITH CONDITIONS - BRANCH MANAGER", "APPROVE" >>

FirstRule(p) ==
    CHOOSE i \in 1..5 : RuleApplies(i, p) /\ \A j \in 1..(i - 1) : ~RuleApplies(j, p)

Favour(r) ==
    CASE r = "REJECT" -> 0
      [] r = "REFER - HEAD OFFICE" -> 1
      [] r = "APPROVE WITH CONDITIONS - BRANCH MANAGER" -> 2
      [] r = "APPROVE" -> 3

\* C4: raising one more flag at the same score, or lowering the score under
\* the same flags, never makes the recommendation more favourable.
C4_NeverMoreFavourable ==
    [][Favour(verdict'.recommendation) <= Favour(verdict.recommendation)]_vars

\* an approval under conditions (training flag, score 80) turned into a
\* referral by the branch-limit flag
C4_Witness ==
    /\ probe.total_score = Num(80)
    /\ probe.flags.Training_Flag
    /\ probe.flags.Branch_Limit_Flag
    /\ \A f \in FlagNames \ {"Training_Flag", "Branch_Limit_Flag"} : ~probe.flags[f]
    /\ probe.collateral_type = "Movable"
    /\ verdict.recommendation = "REFER - HEAD OFFICE"

\* the five bands as the claim lists them, highest threshold first
ClaimedBands ==
    << <<Num(85), "Very Low Risk">>, <<Num(70), "Low Risk">>, <<Num(55), "Moderate Risk">>,
       <<Num(40), "High Risk">>, <<Num(1), "Very High Risk">> >>

\* the label of the highest threshold <= score
ClaimedBand(score) ==
    LET reached == {i \in 1..Len(ClaimedBands) : Leq(ClaimedBands[i][1], score)}
        top == CHOOSE i \in reached :
                   \A j \in reached : Leq(ClaimedBands[j][1], ClaimedBands[i][1])
    IN  ClaimedBands[top][2]

\* riskier bands rank lower
BandRank(band) ==
    Len(ClaimedBands) - (CHOOSE i \in 1..Len(ClaimedBands) : ClaimedBands[i][2] = band)

IsThreshold(score) == \E i \in 1..Len(ClaimedBands) : ClaimedBands[i][1] = score

\* the step is from a score to the next lower probed score
ToNextLower == Sub(probe.total_score, probe'.total_score) = Rat(1, ScoreDen)

FloorBand == verdict.risk_band = ClaimedBand(probe.total_score)

BandMonotone ==
    Leq(probe'.total_score, probe.total_score)
        => BandRank(verdict'.risk_band) <= BandRank(verdict.risk_band)

\* C5 as stated: risk_band gives the label of the highest threshold <= score for
\* every score in [1, 99], whole or not, a higher score never maps to a riskier
\* band, and the function is left-continuous: the band at a threshold is the
\* band just below it.
C5_LeftContinuousBands ==
    [][ /\ FloorBand /\ FloorBand'
        /\ BandMonotone
        /\ (ToNextLower /\ IsThreshold(probe.total_score)
              => verdict'.risk_band = verdict.risk_band) ]_vars

\* C5 amended: as above, but right-continuous: the band at a threshold is the
\* band just above it (each band includes its lower threshold).
C5_RightContinuousBands ==
    [][ /\ FloorBand /\ FloorBand'
        /\ BandMonotone
        /\ (ToNextLower /\ IsThreshold(probe'.total_score)
              => verdict'.risk_band = verdict.risk_band) ]_vars

\* a score that is not whole, just under the threshold 85
C5_Witness ==
    /\ Gt(probe.total_score, Num(84))
    /\ Lt(probe.total_score, Num(85))
    /\ verdict.risk_band = "Low Risk"

AmountTermRate ==
    /\ Present(inputs.requested_loan_amount)
    /\ Present(inputs.term_months)
    /\ Present(inputs.annual_interest_rate)

\* C6: the installment used is the override when there is one; without it and
\* with amount, term and rate present, a zero rate and a nonzero term give
\* principal/term exactly and a zero term gives None whatever the rate; with
\* neither the override nor all three of amount, term and rate it is None.
C6_InstallmentSizing ==
    Returned =>
        LET used == result.value.monthly_installment_used
            override == inputs.monthly_installment_override
        IN  /\ Present(override) => used = override
            /\ IsNone(override) /\ AmountTermRate
                 /\ IsZero(inputs.annual_interest_rate) /\ ~IsZero(inputs.term_months)
                 => used = Quot(inputs.requested_loan_amount, inputs.term_months)
            /\ IsNone(override) /\ AmountTermRate /\ IsZero(inputs.term_months)
                 => IsNone(used)
            /\ IsNone(override) /\ ~AmountTermRate => IsNone(used)

\* no override, rate 0, term 12: 50000 / 12
C6_Witness ==
    /\ Returned
    /\ IsNone(inputs.monthly_installment_override)
    /\ IsZero(inputs.annual_interest_rate)
    /\ inputs.term_months = Num(12)
    /\ result.value.monthly_installment_used = Rat(50000, 12)

\* C7: the repayment share is None when the installment or the unstressed total
\* surplus is None; otherwise it is exactly 1 when that surplus is <= 0,
\* whatever the installment, and installment / surplus when it is positive.
C7_RepaymentShare ==
    Returned =>
        LET installment == result.value.monthly_installment_used
            surplus == result.value.total_monthly_surplus_unstressed
            share == result.value.repayment_share
        IN  /\ IsNone(installment) \/ IsNone(surplus) => IsNone(share)
            /\ Present(installment) /\ Present(surplus) /\ Leq(surplus, Num(0))
                 => share = Num(1)
            /\ Present(installment) /\ Present(surplus) /\ Gt(surplus, Num(0))
                 => share = Quot(installment, surplus)

\* a surplus of exactly 0 (verified revenue 24500)
C7_Witness ==
    /\ Returned
    /\ IsZero(result.value.total_monthly_surplus_unstressed)
    /\ Present(result.value.monthly_installment_used)
    /\ result.value.repayment_share = Num(1)

\* C8: whenever the collateral type is "None" the LTV is the sentinel 99, also
\* when the market value is absent.
C8_NoCollateralSentinel ==
    Returned /\ inputs.collateral_type = "None" => result.value.ltv = Num(99)

Occurrences(seq, x) == Cardinality({i \in 1..Len(seq) : seq[i] = x})

\* C9: whenever the collateral type is "None" the collateral score is 0, the
\* triggered flags hold "REJECT: No Collateral" exactly once, whether or not the
\* collateral flag is set, and the recommendation is "REJECT".
C9_NoCollateral ==
    Returned /\ inputs.collateral_type = "None" =>
        /\ result.value.score_collateral = Num(0)
        /\ Occurrences(result.value.triggered_flags, "REJECT: No Collateral") = 1
        /\ result.value.recommendation = "REJECT"

\* no collateral and an empty insured status: the collateral flag is not set
C9_Witness ==
    /\ Returned
    /\ inputs.collateral_type = "None"
    /\ inputs.collateral_insured = ""
    /\ ~result.flags.Collateral_Flag
    /\ result.value.recommendation = "REJECT"

AtDefaults ==
    /\ inputs = CUSTOMER_INPUT_DEFAULTS
    /\ lookups = DEFAULT_LOOKUP_VALUES
    /\ sector_stress = DEFAULT_SECTOR_STRESS

\* C10 (scenario A): the shipped customer defaults under the default policy give
\* operating expenses 8000, surpluses 8000 / 6800, total surpluses 3500 / 2300,
\* scores 21, 0, 10, 10, 10, total 51, "High Risk", the cash-flow-deficit flag
\* as the only flag set (the amount equals the branch limit and does not
\* exceed it) and the recommendation "REJECT".
C10_ScenarioA ==
    Returned /\ AtDefaults =>
        /\ result.value.total_operating_expenses = Num(8000)
        /\ result.value.business_surplus_unstressed = Num(8000)
        /\ result.value.business_surplus_stressed = Num(6800)
        /\ result.value.total_monthly_surplus_unstressed = Num(3500)
        /\ result.value.total_monthly_surplus_stressed = Num(2300)
        /\ result.value.score_character = Num(21)
        /\ result.value.score_capacity = Num(0)
        /\ result.value.score_capital = Num(10)
        /\ result.value.score_collateral = Num(10)
        /\ result.value.score_conditions = Num(10)
        /\ result.value.total_score = Num(51)
        /\ result.value.risk_band = "High Risk"
        /\ \A f \in FlagNames : result.flags[f] <=> f = "CFDeficit_Flag"
        /\ result.value.triggered_flags =
               <<"REJECT: Cash flow deficit (repayment >50% of surplus)">>
        /\ result.value.recommendation = "REJECT"

C10_Witness ==
    /\ Returned
    /\ AtDefaults
    /\ inputs.requested_loan_amount = lookups.BRANCH_APPROVAL_LIMIT_ETB
    /\ result.flags.CFDeficit_Flag

Evaluated == result.outcome # "none"

\* the optional numbers of the application record
NumericFields ==
    { "age_years", "loan_series", "requested_loan_amount", "monthly_installment_override",
      "term_months", "annual_interest_rate", "years_in_business_months", "stability_months",
      "stated_revenue", "verified_revenue", "cogs_inventory", "other_monthly_income", "rent",
      "household_expenses", "utilities", "owner_withdrawals", "wages", "transport",
      "other_operating_costs", "total_capital", "additional_savings_equity", "market_value" }

Missing(fields) == \E f \in fields : IsNone(inputs[f])

\* no override, amount, term and rate present, rate and term nonzero: pmt
\* evaluates its amortizing branch
Amortizing ==
    /\ IsNone(inputs.monthly_installment_override)
    /\ ~Missing({"requested_loan_amount", "term_months", "annual_interest_rate"})
    /\ ~IsZero(inputs.annual_interest_rate)
    /\ ~IsZero(inputs.term_months)

\* (1 + monthly_rate) ^ (-term_months) of the amortizing branch
AmortizingPower ==
    PowNegated(Add(Num(1), Quot(inputs.annual_interest_rate, Num(1200))),
               inputs.term_months[1])

ScenarioC ==
    /\ IsNone(inputs.verified_revenue)
    /\ ~Missing(NumericFields \ {"verified_revenue"})

\* C11: absence propagates.  With verified revenue absent and every other number
\* present, both business surpluses, both total surpluses, DSCR, stressed DSCR,
\* repayment share and income variance are None, the cash-flow-deficit and
\* income-variance flags are false and the evaluation returns a result; and in
\* every evaluation a derived metric is None whenever one of its required inputs
\* is None or its governing denominator is zero (the repayment share, which is
\* the sentinel 1 for a surplus <= 0, is only required to be None for None inputs).
C11_AbsencePropagates ==
    Evaluated =>
        /\ ScenarioC =>
             /\ Returned
             /\ \A m \in { "business_surplus_unstressed", "business_surplus_stressed",
                           "total_monthly_surplus_unstressed", "total_monthly_surplus_stressed",
                           "dscr", "stressed_dscr", "repayment_share", "income_variance" } :
                    IsNone(result.value[m])
             /\ ~result.flags.CFDeficit_Flag
             /\ ~result.flags.Income_Var_Flag
        /\ Amortizing /\ AmortizingPower = Num(1) =>
             Returned /\ IsNone(result.value.monthly_installment_used)
        /\ Returned =>
             LET v == result.value
                 installment == v.monthly_installment_used
             IN  /\ IsNone(inputs.monthly_installment_override)
                      /\ \/ Missing({"requested_loan_amount", "term_months", "annual_interest_rate"})
                         \/ IsZero(inputs.term_months)
                      => IsNone(installment)
                 /\ Missing({"rent", "utilities", "wages", "transport", "other_operating_costs"})
                      => IsNone(v.total_operating_expenses)
                 /\ Missing({"verified_revenue", "cogs_inventory"})
                         \/ IsNone(v.total_operating_expenses)
                      => IsNone(v.business_surplus_unstressed)
                 /\ IsNone(v.business_surplus_unstressed) \/ IsNone(v.stress_factor)
                      => IsNone(v.business_surplus_stressed)
                 /\ IsNone(v.business_surplus_unstressed)
                         \/ Missing({"other_monthly_income", "household_expenses", "owner_withdrawals"})
                      => IsNone(v.total_monthly_surplus_unstressed)
                 /\ IsNone(v.business_surplus_stressed)
                         \/ Missing({"other_monthly_income", "household_expenses", "owner_withdrawals"})
                      => IsNone(v.total_monthly_surplus_stressed)
                 /\ IsNone(v.total_monthly_surplus_stressed) \/ IsNone(installment)
                         \/ IsZero(installment)
                      => IsNone(v.stressed_dscr)
                 /\ IsNone(v.business_surplus_unstressed) \/ IsNone(installment)
                         \/ IsZero(installment)
                      => IsNone(v.dscr)
                 /\ IsNone(v.total_monthly_surplus_unstressed) \/ IsNone(installment)
                      => IsNone(v.repayment_share)
                 /\ Missing({"stated_revenue", "verified_revenue"})
                         \/ IsZero(inputs.verified_revenue)
                      => IsNone(v.income_variance)
                 /\ Missing({"requested_loan_amount", "total_capital", "additional_savings_equity"})
                         \/ IsZero(inputs.requested_loan_amount)
                      => IsNone(v.equity_ratio)
                 /\ Missing({"additional_savings_equity", "cogs_inventory", "owner_withdrawals"})
                         \/ IsNone(v.total_operating_expenses) \/ IsNone(installment)
                      => IsNone(v.liquidity_coverage)
                 /\ Missing({"requested_loan_amount", "market_value"})
                         \/ inputs.collateral_type = ""
                         \/ (inputs.collateral_type # "None" /\ IsZero(inputs.market_value))
                      => IsNone(v.ltv)
                 /\ IsNone(v.ltv) \/ IsZero(v.ltv) => IsNone(v.collateral_coverage)

\* the part of C11 about an absent verified revenue, on its own
C11_ScenarioCOnly ==
    Evaluated /\ ScenarioC =>
        /\ Returned
        /\ \A m \in { "business_surplus_unstressed", "business_surplus_stressed",
                      "total_monthly_surplus_unstressed", "total_monthly_surplus_stressed",
                      "dscr", "stressed_dscr", "repayment_share", "income_variance" } :
               IsNone(result.value[m])
        /\ ~result.flags.CFDeficit_Flag
        /\ ~result.flags.Income_Var_Flag

\* C12: no evaluation aborts: calculate_scorecard returns a result record for
\* every application record and policy, the amortizing branch of pmt included.
C12_NeverAborts == Evaluated => Returned

\* what the notes and the lookup portal document for a score when no flag is set
DocumentedDecision(score) ==
    IF Geq(score, Num(85)) THEN "APPROVE"
    ELSE IF Geq(score, Num(70)) THEN "APPROVE WITH CONDITIONS - BRANCH MANAGER"
    ELSE IF Geq(score, Num(55)) THEN "REFER - HEAD OFFICE"
    ELSE "REJECT"

\* C17: with no flag set (and some collateral), a total score of 85-99 gives
\* approve, 70-84 approve with conditions, 55-69 refer head office and 1-54
\* reject.
C17_DocumentedBands ==
    probe.flags = NoFlags /\ probe.collateral_type # "None" /\ IsInteger(probe.total_score)
        => verdict.recommendation = DocumentedDecision(probe.total_score)

InUnitInterval(x) == Present(x) /\ Gt(x, Num(0)) /\ Leq(x, Num(1))

\* C18: for a sector whose stress factor is in (0, 1], the stressed business
\* surplus and the stressed total monthly surplus never exceed the unstressed
\* ones, a negative unstressed business surplus included.
C18_StressIsDownside ==
    Returned /\ InUnitInterval(result.value.stress_factor)
             /\ Present(result.value.business_surplus_unstressed) =>
        /\ Leq(result.value.business_surplus_stressed,
               result.value.business_surplus_unstressed)
        /\ Present(result.value.total_monthly_surplus_unstressed) =>
               Leq(result.value.total_monthly_surplus_stressed,
                   result.value.total_monthly_surplus_unstressed)

\* what does hold of C18: stressing a surplus that is not negative
C18_NonNegativeOnly ==
    Returned /\ InUnitInterval(result.value.stress_factor)
             /\ Present(result.value.business_surplus_unstressed)
             /\ Geq(result.value.business_surplus_unstressed, Num(0)) =>
        /\ Leq(result.value.business_surplus_stressed,
               result.value.business_surplus_unstressed)
        /\ Present(result.value.total_monthly_surplus_unstressed) =>
               Leq(result.value.total_monthly_surplus_stressed,
                   result.value.total_monthly_surplus_unstressed)

CalculateEvents == {"CalculateScorecard", "CalculateScorecard raised"}

\* the step is a call that gives what the remembered call gave
SameAsRemembered ==
    IF remembered[1].result.outcome = "returned"
    THEN /\ event' = "CalculateScorecard"
         /\ heap'[session_state'.last_result[1]] = remembered[1].result.value
    ELSE event' = "CalculateScorecard raised"

C14_ArgumentsUnchanged ==
    [][ event' = "CalculateScorecard" =>
          /\ session_state'.fields = session_state.fields
          /\ session_state'.lookup_values = session_state.lookup_values
          /\ session_state'.sector_stress = session_state.sector_stress
          /\ \A o \in {1, 2, session_state.lookup_values, session_state.sector_stress} :
                 o \in DOMAIN heap' /\ heap'[o] = heap[o]
          /\ session_state'.last_result[1] \notin Live(session_state) ]_vars

\* a result returned under a saved policy (DSCR target 1.6), replacing an
\* earlier result
C14_Witness ==
    /\ event = "CalculateScorecard"
    /\ heap[session_state.lookup_values].DSCR_TARGET = Rat(16, 10)
    /\ session_state.last_result # <<>>
    /\ session_state.last_result[1] \notin
           {1, 2, session_state.lookup_values, session_state.sector_stress}

\* C15: "Save Lookup Values" is a snapshot swap: it installs new policy
\* dictionaries in the session and changes no dictionary that existed before
\* the save.
C15_SnapshotSwap ==
    [][ event' = "SaveLookupValues" =>
          \A o \in DOMAIN heap : o \in DOMAIN heap' => heap'[o] = heap[o] ]_vars

\* C16: the module-level default tables are never changed, and after a Reset
\* in the lookup portal the session's policy equals the defaults for every key
\* (sixteen lookup values, five sector stress factors), whatever was saved before.
C16_ResetRestoresDefaults ==
    /\ heap[1] = DEFAULT_LOOKUP_VALUES
    /\ heap[2] = DEFAULT_SECTOR_STRESS
    /\ event = "ResetLookupValues" =>
         /\ heap[session_state.lookup_values] = DEFAULT_LOOKUP_VALUES
         /\ heap[session_state.sector_stress] = DEFAULT_SECTOR_STRESS
         /\ Cardinality(DOMAIN heap[session_state.lookup_values]) = 16
         /\ Cardinality(DOMAIN heap[session_state.sector_stress]) = 5

\* a Reset after a Save: the session still shows a result computed under the
\* saved Trade stress factor 1
C16_Witness ==
    /\ event = "ResetLookupValues"
    /\ session_state.last_result # <<>>
    /\ heap[session_state.last_result[1]].stress_factor = Num(1)
    /\ heap[session_state.sector_stress].Trade = Rat(85, 100)

\* C19: the wizard is a state machine over the steps 1..6: the step is always
\* in 1..6; "Previous" runs only from a step > 1 and lowers it by one; the
\* forward button runs only from a step < 6 and raises it by one if
\* step_missing_fields of the step is empty, and else leaves it; "Reset Form
\* Defaults" gives step 1, every default widget value and no last result; no
\* other action changes the step.
C19_WizardStateMachine ==
    [][ LET step == session_state.scorecard_step
            after == session_state'.scorecard_step
        IN  /\ step \in 1..6
            /\ after \in 1..6
            /\ event' = "Previous" => step > 1 /\ after = step - 1
            /\ event' = "SaveAndContinue" =>
                 /\ step < 6
                 /\ after = IF step_missing_fields(session_state.fields, step) = <<>>
                            THEN step + 1 ELSE step
            /\ event' = "ResetFormDefaults" =>
                 /\ after = 1
                 /\ session_state'.fields = SessionDefaults
                 /\ session_state'.last_result = <<>>
            /\ event' \in {"EditField"} \cup CalculateEvents => after = step ]_vars

\* the forward button pressed on step 3 with the verified revenue missing
C19_Witness ==
    /\ event = "SaveAndContinue"
    /\ session_state.scorecard_step = 3
    /\ step_missing_fields(session_state.fields, 3) = <<"Verified Revenue">>

\* C20: the engine runs on a complete record only: "Calculate Scorecard" runs
\* at step 6 only, and at step 6 step_missing_fields(n) is empty for every n in
\* 1..5, the requested amount is present and so is the installment override or
\* both term and rate.
C20_CompleteRecord ==
    /\ event \in CalculateEvents => session_state.scorecard_step = 6
    /\ session_state.scorecard_step = 6 =>
         /\ \A n \in 1..5 : step_missing_fields(session_state.fields, n) = <<>>
         /\ Present(Arguments.inputs.requested_loan_amount)
         /\ \/ Present(Arguments.inputs.monthly_installment_override)
            \/ /\ Present(Arguments.inputs.term_months)
               /\ Present(Arguments.inputs.annual_interest_rate)

\* the engine has run at step 6 on an amount typed as " 60,000.5" with the
\* collateral type "None"
C20_Witness ==
    /\ session_state.scorecard_step = 6
    /\ event = "CalculateScorecard"
    /\ Arguments.inputs.requested_loan_amount = Rat(120001, 2)
    /\ session_state.fields.collateral_type = "None"

\* show_scorecard_results runs: the wizard is at step 6, the session holds a
\* last_result, and the script was not ended by an exception of the engine
Displayed ==
    /\ session_state.scorecard_step = 6
    /\ session_state.last_result # <<>>
    /\ event # "CalculateScorecard raised"

\* C21: no stale result.  Whenever a result is displayed at step 6, it is what
\* calculate_scorecard returns for the inputs built from the session's widget
\* values and the policy the session holds now.
C21_NoStaleResult ==
    Displayed =>
        LET call == calculate_scorecard(Arguments.inputs, Arguments.lookups,
                                        Arguments.sector_stress)
        IN  /\ call.outcome = "returned"
            /\ heap[session_state.last_result[1]] = call.value

\* the messages of the triggered flags, in the order of their if statements
MessageOrder ==
    << "REJECT: Business less than 6 months",
       "REJECT: Cash flow deficit (repayment >50% of surplus)",
       "REJECT: Data inconsistency (>20% variance)",
       "REJECT: Prior default with HMFI",
       "REJECT: Above hard max loan amount",
       "REFER: Equity <10% of loan",
       "REFER: No training/certification",
       "REFER: Collateral shortfall (LTV too high)",
       "REFER: Collateral not insured",
       "REFER: Above branch approval limit",
       "REJECT: No Collateral" >>

\* the messages prefixed "REJECT:"
RejectMessages == {MessageOrder[k] : k \in {1, 2, 3, 4, 5, 11}}

Position(message) == CHOOSE k \in 1..Len(MessageOrder) : MessageOrder[k] = message

\* every message is one of the list, and they stand in the list's order (so
\* none stands twice)
InFixedOrder(messages) ==
    /\ \A i \in 1..Len(messages) : \E k \in 1..Len(MessageOrder) : MessageOrder[k] = messages[i]
    /\ \A i, j \in 1..Len(messages) :
           i < j => Position(messages[i]) < Position(messages[j])

\* what the engine reports for the probe: its messages with its decision
ProbeMessages == triggered_flags(probe.flags, probe.collateral_type)

\* the agreement of messages and recommendation, with approval from the score
\* `least` on (inclusive) or above it (exclusive)
FlagsAgree(least, inclusive) ==
    /\ (\E i \in 1..Len(ProbeMessages) : ProbeMessages[i] \in RejectMessages)
           => verdict.recommendation = "REJECT"
    /\ verdict.recommendation = "APPROVE" =>
           /\ ProbeMessages = <<>>
           /\ \A f \in FlagNames : ~probe.flags[f]
           /\ IF inclusive THEN Geq(probe.total_score, least)
                           ELSE ~Leq(probe.total_score, least)
           /\ inclusive => verdict.risk_band \in {"Low Risk", "Very Low Risk"}
    /\ InFixedOrder(ProbeMessages)

\* C22: the triggered-flag messages agree with the recommendation: a message
\* prefixed "REJECT:" in the list means the recommendation is "REJECT"; the
\* recommendation "APPROVE" means an empty list, ten false flags and a total
\* score >= 70, so a risk band of "Low Risk" or "Very Low Risk"; the messages
\* stand in one fixed order, each at most once.
C22_FlagsAgreeWithRecommendation == FlagsAgree(Num(70), TRUE)

\* the same with approval for every total score above 69, whatever its band
C22_ApprovalAboveSixtyNine == FlagsAgree(Num(69), FALSE)

\* an approval, with no flag, of a total score between 69 and 70
C22_ApprovedBelowSeventy ==
    /\ verdict.recommendation = "APPROVE"
    /\ ~Geq(probe.total_score, Num(70))
    /\ verdict.risk_band = "Moderate Risk"

====
